---- MODULE Spec2Model ----
(***************************************************************************)
(* Model of the DataHandler library: getRotation and vectorToStringVector  *)
(* (src/src/datahandler.cpp) and the global note Table with its            *)
(* initializeNote (src/examples/note/note.cpp).                            *)
(*                                                                         *)
(* The program is single-threaded: one control location, pc, says which    *)
(* statement runs next.  getRotation is unfolded into its statements so    *)
(* that its locals (rotacionada, it, i, resultado) are visible state.      *)
(* C++ indices are 0-based; TLA+ sequences are 1-based, so element i of a  *)
(* std::vector v is v[i + 1].                                              *)
(***************************************************************************)
EXTENDS Integers, Sequences, FiniteSets, TLC

VARIABLES
    pc,         \* control location of the single thread
    mem,        \* the std::vector<std::string> objects of a getRotation call
    inicio,     \* the start token (const std::string&)
    remove,     \* the remove list (const std::vector<int>&)
    it,         \* result of std::find on rotacionada, as an offset from begin()
    i,          \* loop counter of the filter loop (size_t)
    Serial,     \* lines written by Serial.println during the current call
    reads,      \* offsets read through rotacionada[i] during the current call
    rotated,    \* TRUE once std::rotate has run in the current call
    entry,      \* the arguments as they were when the call was entered
    second,     \* TRUE when the current call re-rotates the previous result
    first,      \* the previous call's result when second is TRUE
    note,       \* the global Table note: [data, rowNameToIndex]
    noteInit,   \* TRUE once initializeNote has returned at least once
    vec,        \* the Vector handed to vectorToStringVector
    vecIn,      \* that Vector as it was when the call was entered
    strs        \* the value vectorToStringVector returned

vars == <<pc, mem, inicio, remove, it, i, Serial, reads, rotated, entry,
          second, first, note, noteInit, vec, vecIn, strs>>

rotVars == <<mem, inicio, remove, it, i, Serial, reads, rotated, entry, second, first>>
noteVars == <<note, noteInit>>
vecVars == <<vec, vecIn, strs>>

-----------------------------------------------------------------------------
(* Bounds of the enumerated inputs *)

MaxLen == 3
MaxRemove == 2
MaxVec == 2

Tokens == {"C", "D"}
Absent == "Z"
OutOfRange == 99

RECURSIVE SeqsUpTo(_, _)
SeqsUpTo(S, n) ==
    IF n = 0 THEN {<<>>}
    ELSE LET shorter == SeqsUpTo(S, n - 1)
         IN  shorter \cup {Append(s, x) : s \in {t \in shorter : Len(t) = n - 1}, x \in S}

Range(s) == {s[k] : k \in 1..Len(s)}

-----------------------------------------------------------------------------
(* Element: std::variant<int, double, std::string, std::vector<std::string>> *)

IntE(n) == [kind |-> "Int", val |-> n]
FloatE(tenths) == [kind |-> "Float", val |-> tenths]
TextE(s) == [kind |-> "Text", val |-> s]
TextSeqE(ss) == [kind |-> "TextSequence", val |-> ss]

RowOfInts(ns) == [k \in 1..Len(ns) |-> IntE(ns[k])]
RowOfText(ss) == [k \in 1..Len(ss) |-> TextE(ss[k])]

Chromatic == <<"C", "C#", "D", "D#", "E", "F", "F#", "G", "G#", "A", "A#", "B">>

-----------------------------------------------------------------------------
(* The global note Table (src/examples/note/note.cpp) *)

\* Table(rowNames, data): the name at position k of rowNames maps to row k.
TableCtor(rowNames, data) ==
    [data |-> data,
     rowNameToIndex |-> [n \in Range(rowNames) |->
                            (CHOOSE k \in 1..Len(rowNames) : rowNames[k] = n) - 1]]

\* Table note({}, {"C", ..., "B"});
noteStatic == TableCtor(<<>>, <<RowOfText(Chromatic)>>)

\* note.data = { ... }  (8 rows of 12 elements)
initializeNote_data ==
    << RowOfInts(<<12, 13, 22, 23, 32, 42, 43, 52, 53, 62, 63, 72>>),
       RowOfInts(<<1, 2, 3, 4, 5, 6, 7, 8, 9, 10, 11, 12>>),
       RowOfText(<<"C", "C#", "D", "D#", "E", "F", "F#", "G", "G#", "A", "A#", "B">>),
       RowOfInts(<<1, 1, 2, 2, 3, 4, 4, 5, 5, 6, 6, 7>>),
       RowOfText(<<"C", "C", "D", "D", "E", "F", "F", "G", "G", "A", "A", "B">>),
       RowOfInts(<<2, 3, 2, 3, 2, 2, 3, 2, 3, 2, 3, 2>>),
       RowOfInts(<<0, 1, 0, 1, 0, 0, 1, 0, 1, 0, 1, 0>>),
       RowOfText(<<"Dó", "Dó#", "Ré", "Ré#", "Mi", "Fá", "Fá#", "Sol", "Sol#", "Lá", "Lá#", "Sí">>) >>

\* A slip in the literal: the names numbered from 1 instead of 0.
initializeNote_rowNameToIndex_fromOne ==
    ("noteid" :> 1) @@ ("noteordem" :> 2) @@ ("note" :> 3) @@ ("soundid" :> 4) @@
    ("sound" :> 5) @@ ("accidentalid" :> 6) @@ ("accidental_value" :> 7) @@
    ("note_pt_br" :> 8)

\* note.rowNameToIndex = { {"noteid", 0}, ... }
initializeNote_rowNameToIndex ==
    ("noteid" :> 0) @@ ("noteordem" :> 1) @@ ("note" :> 2) @@ ("soundid" :> 3) @@
    ("sound" :> 4) @@ ("accidentalid" :> 5) @@ ("accidental_value" :> 6) @@
    ("note_pt_br" :> 7)

\* initializeNote, first statement: the assignment to note.data
initializeNote_assignData ==
    /\ pc = "idle"
    /\ note' = [note EXCEPT !.data = initializeNote_data]
    /\ pc' = "noteMap"
    /\ UNCHANGED <<noteInit, rotVars, vecVars>>

\* initializeNote, second statement: the assignment to note.rowNameToIndex
initializeNote_assignMap ==
    /\ pc = "noteMap"
    /\ note' = [note EXCEPT !.rowNameToIndex = initializeNote_rowNameToIndex]
    /\ noteInit' = TRUE
    /\ pc' = "idle"
    /\ UNCHANGED <<rotVars, vecVars>>

-----------------------------------------------------------------------------
(* vectorToStringVector (src/src/datahandler.cpp) *)

\* A slip: the else branch pushes nothing, so non-text elements are dropped.
RECURSIVE vectorToStringVector_skip(_)
vectorToStringVector_skip(v) ==
    IF v.values = <<>> THEN <<>>
    ELSE LET elem == Head(v.values)
             rest == vectorToStringVector_skip([values |-> Tail(v.values)])
         IN  IF elem.kind = "Text" THEN <<elem.val>> \o rest ELSE rest

\* for (const auto &elem : vec.values) push_back(text of elem, or "")
RECURSIVE vectorToStringVector(_)
vectorToStringVector(v) ==
    IF v.values = <<>> THEN <<>>
    ELSE LET elem == Head(v.values)
             rest == vectorToStringVector([values |-> Tail(v.values)])
         IN  IF elem.kind = "Text" THEN <<elem.val>> \o rest ELSE <<"">> \o rest

Elements == {IntE(7), FloatE(15), TextE(""), TextE("C"), TextSeqE(<<"C", "D">>)}

\* The Vectors a caller converts: small ones of every kind, and the rows of note
Vectors ==
    {[values |-> s] : s \in SeqsUpTo(Elements, MaxVec)}
        \cup {[values |-> note.data[r]] : r \in 1..Len(note.data)}

\* A call of vectorToStringVector(vec); vec is a const reference
CallVectorToStringVector ==
    /\ pc = "idle"
    /\ \E v \in Vectors :
          /\ vecIn' = v
          /\ vec' = v
          /\ strs' = vectorToStringVector(v)
    /\ pc' = "converted"
    /\ UNCHANGED <<rotVars, noteVars>>

\* The caller drops the converted sequence
DropConverted ==
    /\ pc = "converted"
    /\ vec' = [values |-> <<>>]
    /\ vecIn' = [values |-> <<>>]
    /\ strs' = <<>>
    /\ pc' = "idle"
    /\ UNCHANGED <<rotVars, noteVars>>

-----------------------------------------------------------------------------
(* getRotation (src/src/datahandler.cpp) *)

\* std::find over a vector: offset of the first element equal to x, or size()
\* (= end()) when there is none.
RECURSIVE std_find_from(_, _, _)
std_find_from(v, x, k) ==
    IF k >= Len(v) THEN Len(v)
    ELSE IF v[k + 1] = x THEN k
    ELSE std_find_from(v, x, k + 1)

\* A slip: the scan keeps the last match instead of stopping at the first.
std_find_last(v, x) ==
    IF \E k \in 1..Len(v) : v[k] = x
    THEN (CHOOSE k \in 1..Len(v) : v[k] = x /\ \A q \in (k + 1)..Len(v) : v[q] # x) - 1
    ELSE Len(v)

std_find(v, x) == std_find_from(v, x, 0)

\* A slip: rotating so that the element after the pivot comes first.
std_rotate_next(v, middle) ==
    [k \in 1..Len(v) |-> v[((k + middle) % Len(v)) + 1]]

\* std::rotate(begin, begin + middle, end): the element at offset middle becomes
\* the first, the order is kept cyclically.
std_rotate(v, middle) ==
    [k \in 1..Len(v) |-> v[((k - 1 + middle) % Len(v)) + 1]]

\* The value of an int after conversion to size_t, written as the pair
\* <<c, n>> that stands for c * 2^w + n (w the width of size_t): a negative
\* int wraps around to 2^w + n, far above every offset of a vector.
ToSizeT(n) == IF n < 0 THEN <<1, n>> ELSE <<0, n>>

\* A slip: the positions of the remove list taken as 1-based.
removeHas_oneBased(rem, pos) ==
    \E k \in 1..Len(rem) : ToSizeT(rem[k]) = ToSizeT(pos + 1)

\* A slip: the entries taken modulo the 12 semitones of the octave.
removeHas_octave(rem, pos) ==
    \E k \in 1..Len(rem) : ToSizeT(rem[k] % 12) = ToSizeT(pos)

\* std::find(remove.begin(), remove.end(), i) != remove.end(): each int of remove
\* is compared with the size_t i after conversion to size_t.
removeHas(rem, pos) ==
    \E k \in 1..Len(rem) : ToSizeT(rem[k]) = ToSizeT(pos)

\* A slip: the failure test never fires.
notFound_never(v, pos) == FALSE

\* it == rotacionada.end()
notFound(v, pos) == pos = Len(v)

\* A slip: rotacionada declared as a reference to the argument.
rotacionadaObj_alias == "sequencia"

\* std::vector<std::string> rotacionada = sequencia; a local object of its own
rotacionadaObj == "rotacionada"

ErrMsg == "Erro: Nota inicial não encontrada na sequência!"

NoLocals(S) == [sequencia |-> S, rotacionada |-> <<>>, resultado |-> <<>>]

\* Entry to getRotation(S, t, r): the arguments are bound, no local exists yet
Enter(S, t, r) ==
    /\ mem' = NoLocals(S)
    /\ inicio' = t
    /\ remove' = r
    /\ entry' = [sequencia |-> S, inicio |-> t, remove |-> r]
    /\ it' = 0
    /\ i' = 0
    /\ Serial' = <<>>
    /\ reads' = {}
    /\ rotated' = FALSE
    /\ pc' = "copy"

Starts == Tokens \cup {Absent}
RemoveVals == (-1..(MaxLen - 1)) \cup {OutOfRange}
Removes == SeqsUpTo(RemoveVals, MaxRemove)

\* The calls made on a row of the note table
RowStarts == Range(Chromatic) \cup {Absent}
RowRemoves == {<<>>, <<1, 3, 6, 8, 10>>, <<OutOfRange>>, <<10, 1, 1, OutOfRange, -1>>,
               <<0, 1, 2, 3, 4, 5, 6, 7, 8, 9, 10, 11>>}

\* A caller calls getRotation on a small sequence
CallGetRotation ==
    /\ pc = "idle"
    /\ \E S \in SeqsUpTo(Tokens, MaxLen), t \in Starts, r \in Removes : Enter(S, t, r)
    /\ second' = FALSE
    /\ first' = <<>>
    /\ UNCHANGED <<noteVars, vecVars>>

\* A caller calls getRotation on a converted row of the note table
CallGetRotationOnRow ==
    /\ pc = "converted"
    /\ \E r \in 1..Len(note.data) : vec.values = note.data[r]
    /\ \E t \in RowStarts, r \in RowRemoves : Enter(strs, t, r)
    /\ second' = FALSE
    /\ first' = <<>>
    /\ vec' = [values |-> <<>>]
    /\ vecIn' = [values |-> <<>>]
    /\ strs' = <<>>
    /\ UNCHANGED noteVars

\* std::vector<std::string> rotacionada = sequencia;
getRotation_copy ==
    /\ pc = "copy"
    /\ mem' = [mem EXCEPT ![rotacionadaObj] = mem.sequencia]
    /\ pc' = "find"
    /\ UNCHANGED <<inicio, remove, it, i, Serial, reads, rotated, entry, second, first,
                   noteVars, vecVars>>

\* auto it = std::find(...); if (it == end) { Serial.println(...); return {}; }
getRotation_find ==
    /\ pc = "find"
    /\ LET pos == std_find(mem[rotacionadaObj], inicio)
       IN  /\ it' = pos
           /\ IF notFound(mem[rotacionadaObj], pos)
              THEN /\ Serial' = Append(Serial, ErrMsg)
                   /\ mem' = [mem EXCEPT !.resultado = <<>>]
                   /\ pc' = "done"
              ELSE /\ pc' = "rotate"
                   /\ UNCHANGED <<Serial, mem>>
    /\ UNCHANGED <<inicio, remove, i, reads, rotated, entry, second, first,
                   noteVars, vecVars>>

\* std::rotate(rotacionada.begin(), it, rotacionada.end());
getRotation_rotate ==
    /\ pc = "rotate"
    /\ mem' = [mem EXCEPT ![rotacionadaObj] = std_rotate(@, it)]
    /\ rotated' = TRUE
    /\ i' = 0
    /\ pc' = "filter"
    /\ UNCHANGED <<inicio, remove, it, Serial, reads, entry, second, first,
                   noteVars, vecVars>>

\* One pass of for (size_t i = 0; i < rotacionada.size(); ++i) { ... },
\* or the exit of the loop and return resultado;
getRotation_filter ==
    /\ pc = "filter"
    /\ IF i < Len(mem[rotacionadaObj])
       THEN /\ IF ~removeHas(remove, i)
               THEN /\ mem' = [mem EXCEPT !.resultado = Append(@, mem[rotacionadaObj][i + 1])]
                    /\ reads' = reads \cup {i}
               ELSE UNCHANGED <<mem, reads>>
            /\ i' = i + 1
            /\ pc' = "filter"
       ELSE /\ pc' = "done"
            /\ UNCHANGED <<mem, reads, i>>
    /\ UNCHANGED <<inicio, remove, it, Serial, rotated, entry, second, first,
                   noteVars, vecVars>>

\* The caller takes the result and goes on
Return ==
    /\ pc = "done"
    /\ mem' = NoLocals(<<>>)
    /\ inicio' = ""
    /\ remove' = <<>>
    /\ entry' = [sequencia |-> <<>>, inicio |-> "", remove |-> <<>>]
    /\ it' = 0
    /\ i' = 0
    /\ Serial' = <<>>
    /\ reads' = {}
    /\ rotated' = FALSE
    /\ second' = FALSE
    /\ first' = <<>>
    /\ pc' = "idle"
    /\ UNCHANGED <<noteVars, vecVars>>

\* The caller rotates the result of a plain rotation again, to the same token:
\* getRotation(getRotation(S, t, {}), t, {})
CallGetRotationAgain ==
    /\ pc = "done"
    /\ ~second
    /\ entry.remove = <<>>
    /\ Enter(mem.resultado, inicio, <<>>)
    /\ second' = TRUE
    /\ first' = mem.resultado
    /\ UNCHANGED <<noteVars, vecVars>>

-----------------------------------------------------------------------------

Init ==
    /\ pc = "idle"
    /\ mem = NoLocals(<<>>)
    /\ inicio = ""
    /\ remove = <<>>
    /\ entry = [sequencia |-> <<>>, inicio |-> "", remove |-> <<>>]
    /\ it = 0
    /\ i = 0
    /\ Serial = <<>>
    /\ reads = {}
    /\ rotated = FALSE
    /\ second = FALSE
    /\ first = <<>>
    /\ note = noteStatic
    /\ noteInit = FALSE
    /\ vec = [values |-> <<>>]
    /\ vecIn = [values |-> <<>>]
    /\ strs = <<>>

Next ==
    \/ initializeNote_assignData
    \/ initializeNote_assignMap
    \/ CallVectorToStringVector
    \/ DropConverted
    \/ CallGetRotation
    \/ CallGetRotationOnRow
    \/ getRotation_copy
    \/ getRotation_find
    \/ getRotation_rotate
    \/ getRotation_filter
    \/ Return
    \/ CallGetRotationAgain

Spec == Init /\ [][Next]_vars

-----------------------------------------------------------------------------
(* What the claims speak of, stated over the arguments of the call (entry) *)

InCall == pc \in {"copy", "find", "rotate", "filter", "done"}
Done == pc = "done"
S0 == entry.sequencia
Found == \E k \in 1..Len(S0) : S0[k] = entry.inicio

\* 1-based position of the first occurrence of x in s
FirstIndex(s, x) == CHOOSE p \in 1..Len(s) : s[p] = x /\ \A q \in 1..(p - 1) : s[q] # x

\* s rotated so that position p comes first
RotatedAt(s, p) == SubSeq(s, p, Len(s)) \o SubSeq(s, 1, p - 1)

R0 == RotatedAt(S0, FirstIndex(S0, entry.inicio))

\* The 0-based positions of a sequence of length n that rem does not name
KeptPositions(n, rem) == {k \in 0..(n - 1) : k \notin Range(rem)}

\* The elements of r at the positions K, in the order of r
Pick(r, K) ==
    [j \in 1..Cardinality(K) |->
        r[(CHOOSE k \in K : Cardinality({x \in K : x < k}) = j - 1) + 1]]

InRange(n, rem) == SelectSeq(rem, LAMBDA x : x >= 0 /\ x < n)

Count(s, x) == Cardinality({k \in 1..Len(s) : s[k] = x})
Unique(s) == \A a, b \in 1..Len(s) : s[a] = s[b] => a = b

\* C1: when the start token is not an element of the sequence (the empty
\* sequence included), for every remove list the call never rotates and never
\* reads rotacionada[i], and it returns the empty sequence after printing the
\* error line once.
C1_NotFoundEmptyAndDiagnosed ==
    (InCall /\ ~Found) =>
        /\ ~rotated
        /\ reads = {}
        /\ pc \notin {"rotate", "filter"}
        /\ Done => (mem.resultado = <<>> /\ Serial = <<ErrMsg>>)

C1_Witness ==
    Done /\ ~Found /\ Len(S0) = 12 /\ entry.inicio = Absent /\ entry.remove # <<>>

\* The general part of C2: the result is the rotated sequence R (first
\* occurrence of start first) without the elements whose position in R is named
\* by the remove list, in R's order; every offset read is inside R.
RotatedThenFiltered ==
    /\ InCall => reads \subseteq 0..(Len(S0) - 1)
    /\ (Done /\ Found) =>
          mem.resultado = Pick(R0, KeptPositions(Len(S0), entry.remove))

MajorScaleCall ==
    Done /\ S0 = Chromatic /\ entry.inicio = "D" /\ entry.remove = <<1, 3, 6, 8, 10>>

\* C2 as stated: the general part, and on the chromatic scale with start D and
\* remove {1,3,6,8,10} the result is D,E,F,G,A,B,C.
C2_AsStated ==
    /\ RotatedThenFiltered
    /\ MajorScaleCall => mem.resultado = <<"D", "E", "F", "G", "A", "B", "C">>

\* C2 (amended): when the start token is in the sequence, the result is the
\* rotated sequence R without the elements whose position in R is named by the
\* remove list, in R's order, the positions referring to R and not to S.  On
\* the chromatic scale with start D and remove {1,3,6,8,10} the result is
\* D,E,F#,G,A,B,C#.
C2_RotatedThenFiltered ==
    /\ RotatedThenFiltered
    /\ MajorScaleCall => mem.resultado = <<"D", "E", "F#", "G", "A", "B", "C#">>

C2_Witness ==
    MajorScaleCall /\ Len(mem.resultado) = 7 /\ rotated /\ it = 2

\* C3: for a sequence of unique tokens, a start token in it and an empty
\* remove list, the result is a cyclic rotation: same length, same multiset,
\* start first, every element followed (cyclically) by its successor in the
\* input, and the element before start in the input last.
C3_CyclicRotation ==
    (Done /\ Found /\ Unique(S0) /\ entry.remove = <<>>) =>
        LET res == mem.resultado
            n == Len(S0)
            p == FirstIndex(S0, entry.inicio)
        IN  /\ Len(res) = n
            /\ \A x \in Range(S0) \cup Range(res) : Count(res, x) = Count(S0, x)
            /\ res[1] = entry.inicio
            /\ \A k \in 1..n :
                  \E q \in 1..n : res[q] = S0[k] /\ res[(q % n) + 1] = S0[(k % n) + 1]
            /\ res[n] = S0[((p + n - 2) % n) + 1]

C3_Witness ==
    /\ Done /\ Found /\ Unique(S0) /\ entry.remove = <<>>
    /\ Len(S0) = 12 /\ entry.inicio = "G"
    /\ mem.resultado[12] = "F#"

\* C4: entries of the remove list at or above the length of the sequence
\* remove nothing: the result is the one of the remove list restricted to
\* 0..len-1, and the whole rotated sequence when no entry is in range.
C4_OutOfRangeIgnored ==
    (Done /\ Found) =>
        /\ mem.resultado = Pick(R0, KeptPositions(Len(S0), InRange(Len(S0), entry.remove)))
        /\ (\A k \in 1..Len(entry.remove) : entry.remove[k] >= Len(S0))
              => mem.resultado = R0

C4_Witness ==
    /\ Done /\ Found /\ Len(S0) = 12
    /\ entry.remove = <<OutOfRange>>
    /\ Len(mem.resultado) = 12

\* C5: rotating the result of a plain rotation again to the same token, with
\* an empty remove list both times, gives that result back.
C5_RotationIdempotent ==
    (Done /\ second) => mem.resultado = first

C5_Witness ==
    /\ Done /\ second
    /\ Len(first) = 12 /\ first[1] = "A" /\ mem.resultado[12] = "G#"

\* C6: when the remove list names every position 0..len-1 and the start token
\* is in the sequence, the result is empty.
C6_AllRemovedEmpty ==
    (Done /\ Found /\ (0..(Len(S0) - 1)) \subseteq Range(entry.remove)) =>
        mem.resultado = <<>>

C6_Witness ==
    /\ Done /\ Found /\ Len(S0) = 12 /\ rotated
    /\ (0..11) \subseteq Range(entry.remove)

\* C7: throughout a call and at its return, on both paths, the sequence, the
\* start token and the remove list the caller passed hold what they held on
\* entry; the rotation works on the local copy.
C7_InputsUnchanged ==
    InCall =>
        /\ mem.sequencia = entry.sequencia
        /\ inicio = entry.inicio
        /\ remove = entry.remove

C7_Witness ==
    /\ Done /\ rotated
    /\ mem.rotacionada # mem.sequencia
    /\ mem.resultado # mem.sequencia

C9_FirstOccurrencePivot ==
    (Done /\ Count(S0, entry.inicio) > 1 /\ entry.remove = <<>>) =>
        LET p == CHOOSE k \in 1..Len(S0) :
                    S0[k] = entry.inicio /\ \A q \in 1..Len(S0) : S0[q] = entry.inicio => k <= q
        IN  /\ it = p - 1
            /\ mem.resultado = SubSeq(S0, p, Len(S0)) \o SubSeq(S0, 1, p - 1)

C9_Witness ==
    /\ Done /\ entry.remove = <<>> /\ ~second
    /\ Len(S0) = 12 /\ entry.inicio = "D" /\ Count(S0, "D") = 2
    /\ mem.resultado[1] = "D" /\ mem.resultado[2] = "D" /\ mem.resultado[12] = "C"

\* C10: vectorToStringVector returns as many strings as the Vector has
\* elements; string k is the text of element k when that is a Text and the
\* empty string otherwise; the Vector is left as it was.
C10_TextOrEmpty ==
    pc = "converted" =>
        /\ Len(strs) = Len(vecIn.values)
        /\ \A k \in 1..Len(vecIn.values) :
              strs[k] = IF vecIn.values[k].kind = "Text" THEN vecIn.values[k].val ELSE ""
        /\ vec = vecIn

C10_Witness ==
    /\ pc = "converted"
    /\ vecIn.values = <<IntE(7), TextE("")>>
    /\ strs = <<"", "">>

====
